---- MODULE Spec2Model ----
(***************************************************************************)
(* A model of rusting_raytracer (src/src/main.rs, src/src/math.rs): the    *)
(* intersection tests, closest-hit selection, shading and the render loop. *)
(*                                                                         *)
(* Numbers.  The program computes in f64.  The model computes in exact     *)
(* rational arithmetic extended with the IEEE special values, so that a    *)
(* division by zero, a NaN comparison and f64::MAX behave as in the code.  *)
(* A value is a pair <<n, d>>:                                             *)
(*    d > 0          the rational n/d in lowest terms                      *)
(*    <<0, 0>>       NaN                                                   *)
(*    <<1, 0>>       +infinity        <<-1, 0>>   -infinity                *)
(*    <<2, 0>>       f64::MAX (only compared, never computed with)         *)
(* The sign of zero is not kept.  A square root is taken exactly; the      *)
(* inputs are chosen so that every root the code takes is rational, and    *)
(* a root that is not makes TLC stop with an error rather than go on with  *)
(* a rounded value.                                                        *)
(***************************************************************************)
EXTENDS Integers, Sequences, FiniteSets, TLC

\* ------------------------------------------------------------------ f64

Abs(n) == IF n < 0 THEN -n ELSE n

Sgn(n) == IF n < 0 THEN -1 ELSE IF n = 0 THEN 0 ELSE 1

RECURSIVE Gcd(_, _)
Gcd(a, b) == IF b = 0 THEN a ELSE Gcd(b, a % b)

Norm(n, d) ==
    IF d = 0 THEN <<Sgn(n), 0>>
    ELSE LET s == IF d < 0 THEN -1 ELSE 1
             g == Gcd(Abs(n), Abs(d))
         IN  <<(s * n) \div g, (s * d) \div g>>

R(n) == <<n, 1>>

Frac(n, d) == Norm(n, d)

NaN == <<0, 0>>

F64_INFINITY == <<1, 0>>

F64_MAX == <<2, 0>>

IsNaN(a) == a = NaN

IsFinite(a) == a[2] # 0

FNeg(a) == IF a[2] = 0 /\ a[1] = 2 THEN <<-1, 0>> ELSE <<-a[1], a[2]>>

FAdd(a, b) ==
    IF IsNaN(a) \/ IsNaN(b) THEN NaN
    ELSE IF a[2] = 0 /\ b[2] = 0 THEN (IF Sgn(a[1]) = Sgn(b[1]) THEN a ELSE NaN)
    ELSE IF a[2] = 0 THEN a
    ELSE IF b[2] = 0 THEN b
    ELSE Norm(a[1] * b[2] + b[1] * a[2], a[2] * b[2])

FSub(a, b) == FAdd(a, FNeg(b))

\* 0 * infinity and NaN * x come out as <<0, 0>>, infinity * x as <<+-1, 0>>.
FMul(a, b) == Norm(a[1] * b[1], a[2] * b[2])

\* 1/0 is +infinity, 1/infinity is 0, 1/NaN is NaN.
FInv(b) == IF b[1] < 0 THEN Norm(-b[2], -b[1]) ELSE Norm(b[2], b[1])

FDiv(a, b) == FMul(a, FInv(b))

\* -infinity < finite < f64::MAX < +infinity
Rank(a) == IF a[2] # 0 THEN 0 ELSE IF a[1] < 0 THEN -1 ELSE a[1]

\* a < b as f64 compares: false when either side is NaN.
FLt(a, b) ==
    IF IsNaN(a) \/ IsNaN(b) THEN FALSE
    ELSE IF a[2] = 0 \/ b[2] = 0 THEN Rank(a) < Rank(b)
    ELSE a[1] * b[2] < b[1] * a[2]

FGt(a, b) == FLt(b, a)

FLe(a, b) == ~IsNaN(a) /\ ~IsNaN(b) /\ ~FLt(b, a)

RECURSIVE ISqrtIn(_, _, _)
ISqrtIn(n, lo, hi) ==
    IF lo >= hi THEN lo
    ELSE LET mid == (lo + hi + 1) \div 2
         IN  IF mid * mid <= n THEN ISqrtIn(n, mid, hi) ELSE ISqrtIn(n, lo, mid - 1)

\* The largest r with r * r <= n (46340 * 46340 is the largest square below 2^31).
ISqrt(n) == ISqrtIn(n, 0, IF n < 46340 THEN n ELSE 46340)

IsSquare(n) == n >= 0 /\ ISqrt(n) * ISqrt(n) = n

\* The exact root; no value when n is not a perfect square.
ExactRoot(n) == CHOOSE r \in {ISqrt(n)} : r * r = n

\* f64::sqrt: NaN for a negative argument.
FSqrt(a) ==
    IF IsNaN(a) \/ a[1] < 0 THEN NaN
    ELSE IF a[2] = 0 THEN a
    ELSE <<ExactRoot(a[1]), ExactRoot(a[2])>>

\* f64::powf for an exponent p/1 or p/2 with p >= 0 and a base >= 0.
RECURSIVE FPowInt(_, _)
FPowInt(a, p) == IF p = 0 THEN R(1) ELSE FMul(a, FPowInt(a, p - 1))

FPowf(a, e) == IF e[2] = 1 THEN FPowInt(a, e[1]) ELSE FPowInt(FSqrt(a), e[1])

\* `x as u8`: truncates toward zero and saturates; NaN becomes 0.
AsU8(a) ==
    IF IsNaN(a) THEN 0
    ELSE IF a[2] = 0 THEN (IF a[1] < 0 THEN 0 ELSE 255)
    ELSE IF a[1] <= 0 THEN 0
    ELSE IF a[1] \div a[2] > 255 THEN 255
    ELSE a[1] \div a[2]

\* -------------------------------------------------------------- math.rs

min(a, b, c) == IF FLt(a, b) /\ FLt(a, c) THEN a ELSE IF FLt(b, c) THEN b ELSE c

max(a, b, c) == IF FGt(a, b) /\ FGt(a, c) THEN a ELSE IF FGt(b, c) THEN b ELSE c

\* clamp that leaves the value as it is.
clamp_none(value, lo, hi) == value

clamp(value, lo, hi) == IF FGt(value, hi) THEN hi ELSE IF FLt(value, lo) THEN lo ELSE value

V3(x, y, z) == [x |-> x, y |-> y, z |-> z]

\* A point or direction with integer coordinates.
P3(x, y, z) == V3(R(x), R(y), R(z))

V3_add(a, b) == V3(FAdd(a.x, b.x), FAdd(a.y, b.y), FAdd(a.z, b.z))

V3_subtract(a, b) == V3(FSub(a.x, b.x), FSub(a.y, b.y), FSub(a.z, b.z))

V3_multiply(a, amount) == V3(FMul(a.x, amount), FMul(a.y, amount), FMul(a.z, amount))

V3_dot(a, b) == FAdd(FAdd(FMul(a.x, b.x), FMul(a.y, b.y)), FMul(a.z, b.z))

V3_cross(a, b) ==
    V3(FSub(FMul(a.y, b.z), FMul(a.z, b.y)),
       FSub(FMul(a.z, b.x), FMul(a.x, b.z)),
       FSub(FMul(a.x, b.y), FMul(a.y, b.x)))

FAbs(a) == IF a[1] < 0 THEN FNeg(a) ELSE a

V3_squared_length(a) == FAdd(FAdd(FMul(a.x, a.x), FMul(a.y, a.y)), FMul(a.z, a.z))

\* sqrt(x*x + y*y + z*z).  For a finite non-zero vector the model takes the
\* largest component m out of the root, m * sqrt((x/m)^2 + (y/m)^2 + (z/m)^2),
\* which is the same number and keeps the squares within TLC's integers.
V3_length(a) ==
    LET m == max(FAbs(a.x), FAbs(a.y), FAbs(a.z))
    IN  IF IsFinite(a.x) /\ IsFinite(a.y) /\ IsFinite(a.z) /\ m # R(0)
        THEN FMul(m, FSqrt(V3_squared_length(V3(FDiv(a.x, m), FDiv(a.y, m), FDiv(a.z, m)))))
        ELSE FSqrt(V3_squared_length(a))

V3_normalize(a) ==
    LET length == V3_length(a)
    IN  V3(FDiv(a.x, length), FDiv(a.y, length), FDiv(a.z, length))

V3_lerp(a, other, ratio) == V3_add(V3_multiply(V3_subtract(other, a), ratio), a)

\* -------------------------------------------------------------- main.rs

FOCAL_LENGTH == R(10)

CAMERA_POSITION == V3(R(0), R(0), FNeg(FOCAL_LENGTH))

VIEW_PORT_WIDTH == R(4)

FADE_DISTANCE_START == R(1000000)

FADE_DISTANCE_END == R(2000000)

SPECULAR_REFLECTION_CONSTANT == Frac(1, 2)

DIFFUSE_REFLECTION_CONSTANT == Frac(1, 10)

AMBIENT_REFLECTION_CONSTANT == Frac(1, 10)

MATERIAL_SHININESS_CONSTANT == Frac(3, 2)

ColorMode == {"StaticColor", "Normals", "Light"}

Color(r, g, b) == [r |-> r, g |-> g, b |-> b]

Rgb(r, g, b) == Color(R(r), R(g), R(b))

COLOR_BLACK == Rgb(0, 0, 0)

COLOR_RED == Rgb(255, 0, 0)

COLOR_GREEN == Rgb(0, 255, 0)

COLOR_BROWN == Rgb(139, 69, 19)

COLOR_WHITE == Rgb(255, 255, 255)

Color_add(a, other) == Color(FAdd(a.r, other.r), FAdd(a.g, other.g), FAdd(a.b, other.b))

Color_subtract(a, other) == Color(FSub(a.r, other.r), FSub(a.g, other.g), FSub(a.b, other.b))

Color_multiply(a, amount) == Color(FMul(a.r, amount), FMul(a.g, amount), FMul(a.b, amount))

Color_relative_element_wise_multiply(a, other) ==
    Color(FMul(FDiv(a.r, R(255)), other.r),
          FMul(FDiv(a.g, R(255)), other.g),
          FMul(FDiv(a.b, R(255)), other.b))

Color_lerp(a, other, ratio) == Color_add(Color_multiply(Color_subtract(other, a), ratio), a)

Ray(origin, direction) == [origin |-> origin, direction |-> direction]

SphereObject(center, radius, color) ==
    [kind |-> "Sphere", center |-> center, radius |-> radius, color |-> color]

TriangleObject(p1, p2, p3, color) ==
    [kind |-> "Triangle", p1 |-> p1, p2 |-> p2, p3 |-> p3, color |-> color]

LightObject(position, diffuse_component, specular_component) ==
    [kind |-> "Light", position |-> position,
     diffuse_component |-> diffuse_component, specular_component |-> specular_component]

\* Option<Hit>: None, or Some(Hit {..}) as a record with some = TRUE.
None == [some |-> FALSE]

Hit(point, material_color, distance, surface_normal) ==
    [some |-> TRUE, point |-> point, material_color |-> material_color,
     distance |-> distance, surface_normal |-> surface_normal]

\* A definition with parameters stands for a run of `let` statements: the values
\* it is given are the lets before it.

Sphere_a(ray_) == V3_dot(ray_.direction, ray_.direction)

Sphere_b(origin_to_center, ray_) == FMul(R(2), V3_dot(origin_to_center, ray_.direction))

Sphere_c(self, origin_to_center) ==
    FSub(V3_dot(origin_to_center, origin_to_center), FMul(self.radius, self.radius))

Discriminant(a, b, c) == FSub(FMul(b, b), FMul(FMul(R(4), a), c))

Sphere_discriminant(self, ray_) ==
    Discriminant(Sphere_a(ray_),
                 Sphere_b(V3_subtract(ray_.origin, self.center), ray_),
                 Sphere_c(self, V3_subtract(ray_.origin, self.center)))

\* Sphere_closest_solution without the min: the first solution is taken.
Sphere_closest_solution_first(a, b, root) == FMul(FDiv(FAdd(FNeg(b), root), R(2)), a)

\* `x / 2.0 * a` is (x / 2.0) * a
Sphere_closest_solution(a, b, root) ==
    LET solution1 == FMul(FDiv(FAdd(FNeg(b), root), R(2)), a)
        solution2 == FMul(FDiv(FSub(FNeg(b), root), R(2)), a)
    IN  min(solution1, solution2, F64_MAX)

Sphere_hit(self, ray_, intersection) ==
    LET distance == V3_length(V3_subtract(intersection, ray_.origin))
        normal == V3_normalize(V3_subtract(intersection, self.center))
    IN  Hit(intersection, self.color, distance, normal)

Sphere_solve(self, ray_, discriminant) ==
    IF FLt(discriminant, R(0)) THEN None
    ELSE Sphere_hit(self, ray_,
             V3_add(ray_.origin,
                    V3_multiply(ray_.direction,
                        Sphere_closest_solution(
                            Sphere_a(ray_),
                            Sphere_b(V3_subtract(ray_.origin, self.center), ray_),
                            FSqrt(discriminant)))))

Sphere_intersect(self, ray_) == Sphere_solve(self, ray_, Sphere_discriminant(self, ray_))

points_are_on_same_side_of_ray(point_to_test_1, point_to_test_2, line_start_point, line_end_point) ==
    LET boundary_vec == V3_subtract(line_start_point, line_end_point)
        point_1_vec == V3_cross(boundary_vec, V3_subtract(point_to_test_1, line_end_point))
        point_2_vec == V3_cross(boundary_vec, V3_subtract(point_to_test_2, line_end_point))
        c == V3_dot(point_1_vec, point_2_vec)
    IN  FGt(c, R(0))

Triangle_normal(self) ==
    LET side1 == V3_subtract(self.p2, self.p1)
        side2 == V3_subtract(self.p3, self.p1)
    IN  V3_cross(side1, side2)

Plane_distance_along_ray(normal, p1, ray_) ==
    LET plane_k == V3_dot(V3_multiply(normal, R(-1)), p1)
        a == normal.x
        b == normal.y
        c == normal.z
    IN  FNeg(FDiv(FAdd(FAdd(FAdd(FMul(a, ray_.origin.x), FMul(b, ray_.origin.y)),
                            FMul(c, ray_.origin.z)), plane_k),
                  FAdd(FAdd(FMul(a, ray_.direction.x), FMul(b, ray_.direction.y)),
                       FMul(c, ray_.direction.z))))

Triangle_distance_along_ray(self, ray_) ==
    Plane_distance_along_ray(Triangle_normal(self), self.p1, ray_)

\* The tests of Triangle::intersect, from `if distance_along_ray < 0.0` to its last
\* `return None`: whether the ray meets the triangle, and where.
Triangle_tests(self, distance_along_ray, intersection) ==
    LET miss == [some |-> FALSE, point |-> intersection]
    IN  IF FLt(distance_along_ray, R(0)) THEN miss
        ELSE IF FLt(intersection.x, min(self.p1.x, self.p2.x, self.p3.x)) THEN miss
        ELSE IF FGt(intersection.x, max(self.p1.x, self.p2.x, self.p3.x)) THEN miss
        ELSE IF FLt(intersection.y, min(self.p1.y, self.p2.y, self.p3.y)) THEN miss
        ELSE IF FGt(intersection.y, max(self.p1.y, self.p2.y, self.p3.y)) THEN miss
        ELSE IF FLt(intersection.z, min(self.p1.z, self.p2.z, self.p3.z)) THEN miss
        ELSE IF FGt(intersection.z, max(self.p1.z, self.p2.z, self.p3.z)) THEN miss
        ELSE IF ~points_are_on_same_side_of_ray(intersection, self.p1, self.p2, self.p3) THEN miss
        ELSE IF ~points_are_on_same_side_of_ray(intersection, self.p2, self.p3, self.p1) THEN miss
        ELSE IF ~points_are_on_same_side_of_ray(intersection, self.p3, self.p1, self.p2) THEN miss
        ELSE [some |-> TRUE, point |-> intersection]

Triangle_at(self, ray_, distance_along_ray) ==
    Triangle_tests(self, distance_along_ray,
                   V3_add(ray_.origin, V3_multiply(ray_.direction, distance_along_ray)))

Triangle_intersection(self, ray_) ==
    Triangle_at(self, ray_, Triangle_distance_along_ray(self, ray_))

Triangle_hit(self, ray_, found) ==
    IF ~found.some THEN None
    ELSE Hit(found.point, self.color,
             V3_length(V3_subtract(found.point, ray_.origin)),
             V3_normalize(Triangle_normal(self)))

Triangle_intersect(self, ray_) == Triangle_hit(self, ray_, Triangle_intersection(self, ray_))

ray_through_points(start, end) == Ray(start, V3_normalize(V3_subtract(end, start)))

\* The match of send_ray's loop body: the object's hit, None for a Light.
intersect(obj, ray_) ==
    CASE obj.kind = "Sphere" -> Sphere_intersect(obj, ray_)
      [] obj.kind = "Triangle" -> Triangle_intersect(obj, ray_)
      [] obj.kind = "Light" -> None

\* The specular part of one light, added when r_dot_v > 0.0.
add_specular(with_diffuse, light_object, r_dot_v) ==
    IF FGt(r_dot_v, R(0))
    THEN Color_add(with_diffuse,
                   Color_multiply(light_object.specular_component,
                                  FPowf(FMul(SPECULAR_REFLECTION_CONSTANT, r_dot_v),
                                        MATERIAL_SHININESS_CONSTANT)))
    ELSE with_diffuse

light_r_dot_v(hit_, vec_to_light_source, l_dot_n) ==
    LET v_to_camera == V3_normalize(V3_subtract(CAMERA_POSITION, hit_.point))
        reflected_ray_direction ==
            V3_normalize(V3_subtract(V3_multiply(hit_.surface_normal, FMul(l_dot_n, R(2))),
                                     vec_to_light_source))
    IN  V3_dot(reflected_ray_direction, v_to_camera)

light_diffuse_part(light_object, hit_, l_dot_n) ==
    LET diffuse_light_part ==
            Color_multiply(light_object.diffuse_component,
                           FMul(DIFFUSE_REFLECTION_CONSTANT, l_dot_n))
        color_before_lighting == hit_.material_color
    IN  Color_relative_element_wise_multiply(diffuse_light_part, color_before_lighting)

\* light_lit assigning the light's parts to resulting_light instead of adding them.
light_lit_assign(resulting_light, light_object, hit_, vec_to_light_source, l_dot_n) ==
    add_specular(light_diffuse_part(light_object, hit_, l_dot_n),
                 light_object,
                 light_r_dot_v(hit_, vec_to_light_source, l_dot_n))

light_lit(resulting_light, light_object, hit_, vec_to_light_source, l_dot_n) ==
    add_specular(Color_add(resulting_light, light_diffuse_part(light_object, hit_, l_dot_n)),
                 light_object,
                 light_r_dot_v(hit_, vec_to_light_source, l_dot_n))

light_towards(resulting_light, light_object, hit_, vec_to_light_source) ==
    light_lit(resulting_light, light_object, hit_, vec_to_light_source,
              V3_dot(vec_to_light_source, hit_.surface_normal))

\* One pass of the `for obj in scene.iter()` loop of get_color_for_hitpoint in
\* mode Light, on the accumulators acc = [resulting_light, all_light_sources_summed].
light_loop_body(acc_, obj, hit_) ==
    IF obj.kind = "Light"
    THEN [resulting_light |->
              light_towards(acc_.resulting_light, obj, hit_,
                            V3_normalize(V3_subtract(obj.position, hit_.point))),
          all_light_sources_summed |->
              Color_add(Color_add(acc_.all_light_sources_summed, obj.diffuse_component),
                        obj.specular_component)]
    ELSE acc_

\* The accumulators as the Light arm declares them.
light_loop_start == [resulting_light |-> COLOR_BLACK, all_light_sources_summed |-> COLOR_BLACK]

\* After the loop: the ambient part is added to resulting_light.
light_loop_end(acc_, hit_) ==
    LET ambient_part == Color_multiply(hit_.material_color, AMBIENT_REFLECTION_CONSTANT)
    IN  Color_add(acc_.resulting_light, ambient_part)

normals_color(hit_) ==
    Color(FMul(FAdd(hit_.surface_normal.x, R(1)), Frac(255, 2)),
          FMul(FAdd(hit_.surface_normal.y, R(1)), Frac(255, 2)),
          FMul(FAdd(hit_.surface_normal.z, R(1)), Frac(255, 2)))

\* The distance fade that ends get_color_for_hitpoint.
fade(computed_color_, hit_) ==
    IF FGt(hit_.distance, FADE_DISTANCE_START)
    THEN LET ratio == clamp(FDiv(FSub(hit_.distance, FADE_DISTANCE_START),
                                 FSub(FADE_DISTANCE_END, FADE_DISTANCE_START)),
                            R(0), R(1))
         IN  Color_lerp(computed_color_, COLOR_BLACK, ratio)
    ELSE computed_color_

\* send_ray_update without the comparison: every hit replaces the closest one.
send_ray_update_any(st_, opt_hit) ==
    IF opt_hit.some
    THEN [closest_hit_distance |-> opt_hit.distance, closest_hit |-> opt_hit]
    ELSE st_

\* send_ray_update with `<=` for `<`: of two hits at one distance the later wins.
send_ray_update_le(st_, opt_hit) ==
    IF opt_hit.some /\ FLe(opt_hit.distance, st_.closest_hit_distance)
    THEN [closest_hit_distance |-> opt_hit.distance, closest_hit |-> opt_hit]
    ELSE st_

\* `match opt_hit`: a nearer hit replaces the closest one.
send_ray_update(st_, opt_hit) ==
    IF opt_hit.some /\ FLt(opt_hit.distance, st_.closest_hit_distance)
    THEN [closest_hit_distance |-> opt_hit.distance, closest_hit |-> opt_hit]
    ELSE st_

\* One pass of send_ray's loop on st = [closest_hit_distance, closest_hit].
send_ray_body(st_, obj, ray_) == send_ray_update(st_, intersect(obj, ray_))

send_ray_start == [closest_hit_distance |-> F64_MAX, closest_hit |-> None]

\* ------------------------------------------------- the calls, composed

RECURSIVE send_ray_loop(_, _, _, _)
send_ray_loop(scene_, ray_, st_, k) ==
    IF k > Len(scene_) THEN st_
    ELSE send_ray_loop(scene_, ray_, send_ray_body(st_, scene_[k], ray_), k + 1)

RECURSIVE light_loop(_, _, _, _)
light_loop(scene_, hit_, acc_, k) ==
    IF k > Len(scene_) THEN acc_
    ELSE light_loop(scene_, hit_, light_loop_body(acc_, scene_[k], hit_), k + 1)

get_color_for_hitpoint(hit_, scene_, mode) ==
    fade(CASE mode = "StaticColor" -> COLOR_RED
           [] mode = "Normals" -> normals_color(hit_)
           [] mode = "Light" ->
                  light_loop_end(light_loop(scene_, hit_, light_loop_start, 1), hit_),
         hit_)

\* A background that is not black.
send_ray_background_white == COLOR_WHITE

\* What send_ray returns when no object was hit.
send_ray_background == COLOR_BLACK

send_ray_return(closest_hit, scene_, mode) ==
    IF closest_hit.some THEN get_color_for_hitpoint(closest_hit, scene_, mode)
    ELSE send_ray_background

send_ray(scene_, ray_, mode) ==
    send_ray_return(send_ray_loop(scene_, ray_, send_ray_start, 1).closest_hit, scene_, mode)

\* --------------------------------------------------------------- inputs

\* The longest scene the model draws.
MaxObjects == 3

\* Rays from the camera: along the view axis, and off axis with the rational
\* unit direction (0, 3/5, 4/5).
AxisRay == Ray(CAMERA_POSITION, P3(0, 0, 1))

SlantRay == Ray(CAMERA_POSITION, V3(R(0), Frac(3, 5), Frac(4, 5)))

Rays == {AxisRay, SlantRay}

\* Spheres and triangles on which every root the code takes for these rays and
\* lights is rational.  NearSphere and WideSphere meet AxisRay at the same point
\* (0,0,5), at the same distance 15, with different colors.  BehindSphere and
\* BehindTriangle lie wholly behind the camera.  SlantSphere's center is on
\* SlantRay, 30 from the camera.
NearSphere == SphereObject(P3(0, 0, 10), R(5), COLOR_GREEN)

WideSphere == SphereObject(P3(0, 0, 15), R(10), COLOR_RED)

BehindSphere == SphereObject(P3(0, 0, -30), R(5), COLOR_RED)

SlantSphere == SphereObject(P3(0, 18, 14), R(5), COLOR_GREEN)

FarTriangle == TriangleObject(P3(-5, -5, 25), P3(5, -5, 25), P3(0, 5, 25), COLOR_BROWN)

BehindTriangle == TriangleObject(P3(-5, -5, -20), P3(5, -5, -20), P3(0, 5, -20), COLOR_BROWN)

LeftLight == LightObject(P3(-36, -9, 37), COLOR_WHITE, COLOR_WHITE)

RightLight == LightObject(P3(36, -9, 37), Rgb(255, 0, 0), Rgb(0, 0, 255))

Objects ==
    {NearSphere, WideSphere, BehindSphere, SlantSphere,
     FarTriangle, BehindTriangle, LeftLight, RightLight}

SeqsUpTo(S, n) == UNION {[1..k -> S] : k \in 0..n}

Scenes == SeqsUpTo(Objects, MaxObjects)

\* ---------------------------------------------------------------- state

VARIABLES
    color_mode,          \* COLOR_MODE
    img_width_px,        \* IMG_WIDTH_PX
    img_height_px,       \* IMG_HEIGHT_PX
    scene,               \* the Vec<Object> of main, the `scene` of every call
    pc,                  \* where the program is
    diagnostic,          \* the message of a panic
    view_port_pixel_x,   \* main's outer loop variable
    view_port_pixel_y,   \* main's inner loop variable
    img,                 \* the image: the pixels put so far, <<x, y>> -> <<r, g, b>>
    puts,                \* how often put_pixel was called on each <<x, y>>
    rays_cast,           \* how many calls of send_ray main has made
    workers,             \* the pixel and color each worker of a parallel render holds
    ray,                 \* send_ray's `ray`
    i,                   \* send_ray's position in scene.iter()
    st,                  \* send_ray's closest_hit_distance and closest_hit
    tested,              \* how often each object of the scene was matched against the ray
    hit,                 \* get_color_for_hitpoint's `hit`
    j,                   \* the Light arm's position in scene.iter()
    acc,                 \* the Light arm's resulting_light and all_light_sources_summed
    visited,             \* how often the Light arm's loop took each object of the scene
    computed_color,      \* get_color_for_hitpoint's computed_color
    result               \* the Color send_ray (get_color_for_hitpoint) returned

vars ==
    <<color_mode, img_width_px, img_height_px, scene, pc, diagnostic,
      view_port_pixel_x, view_port_pixel_y, img, puts, rays_cast, workers,
      ray, i, st, tested, hit, j, acc, visited, computed_color, result>>

config_vars == <<color_mode, img_width_px, img_height_px>>

main_vars ==
    <<diagnostic, view_port_pixel_x, view_port_pixel_y, img, puts, rays_cast, workers>>

send_ray_vars == <<ray, i, st, tested>>

get_color_vars == <<hit, j, acc, visited, computed_color>>

Zeros(n) == [k \in 1..n |-> 0]

EmptyImage == [p \in {} |-> <<0, 0, 0>>]

MainIdle ==
    /\ diagnostic = ""
    /\ view_port_pixel_x = 0
    /\ view_port_pixel_y = 0
    /\ img = EmptyImage
    /\ puts = [p \in {} |-> 0]
    /\ rays_cast = 0
    /\ workers = <<>>

GetColorIdle ==
    /\ j = 1
    /\ acc = light_loop_start
    /\ visited = Zeros(Len(scene))
    /\ computed_color = COLOR_BLACK
    /\ result = COLOR_BLACK

\* ------------------------------------------------ send_ray, step by step

\* A call send_ray(&scene, &ray) at its first statement.
Init ==
    /\ color_mode \in ColorMode
    /\ img_width_px = 0
    /\ img_height_px = 0
    /\ scene \in Scenes
    /\ ray \in Rays
    /\ pc = "send_ray"
    /\ i = 1
    /\ st = send_ray_start
    /\ tested = Zeros(Len(scene))
    /\ hit = None
    /\ MainIdle
    /\ GetColorIdle

\* One pass of `for obj in scene.iter()`.
SendRayIter ==
    /\ pc = "send_ray"
    /\ i <= Len(scene)
    /\ st' = send_ray_body(st, scene[i], ray)
    /\ tested' = [tested EXCEPT ![i] = @ + 1]
    /\ i' = i + 1
    /\ UNCHANGED <<config_vars, scene, pc, main_vars, ray, get_color_vars, result>>

\* `return match closest_hit`: the call of get_color_for_hitpoint, or the background.
SendRayReturn ==
    /\ pc = "send_ray"
    /\ i > Len(scene)
    /\ IF st.closest_hit.some
       THEN /\ hit' = st.closest_hit
            /\ pc' = "get_color"
            /\ result' = result
       ELSE /\ result' = send_ray_background
            /\ pc' = "returned"
            /\ hit' = hit
    /\ UNCHANGED <<config_vars, scene, main_vars, send_ray_vars, j, acc, visited, computed_color>>

\* `match COLOR_MODE`: the arms StaticColor and Normals, and the Light arm up to its loop.
GetColorEnter ==
    /\ pc = "get_color"
    /\ CASE color_mode = "StaticColor" ->
                /\ computed_color' = COLOR_RED
                /\ pc' = "fade"
                /\ UNCHANGED <<j, acc, visited>>
         [] color_mode = "Normals" ->
                /\ computed_color' = normals_color(hit)
                /\ pc' = "fade"
                /\ UNCHANGED <<j, acc, visited>>
         [] color_mode = "Light" ->
                /\ acc' = light_loop_start
                /\ j' = 1
                /\ pc' = "lights"
                /\ UNCHANGED <<visited, computed_color>>
    /\ UNCHANGED <<config_vars, scene, main_vars, send_ray_vars, hit, result>>

\* One pass of the Light arm's `for obj in scene.iter()`.
LightIter ==
    /\ pc = "lights"
    /\ j <= Len(scene)
    /\ acc' = light_loop_body(acc, scene[j], hit)
    /\ visited' = [visited EXCEPT ![j] = @ + 1]
    /\ j' = j + 1
    /\ UNCHANGED <<config_vars, scene, pc, main_vars, send_ray_vars, hit, computed_color, result>>

\* The end of the Light arm: the ambient part.
LightEnd ==
    /\ pc = "lights"
    /\ j > Len(scene)
    /\ computed_color' = light_loop_end(acc, hit)
    /\ pc' = "fade"
    /\ UNCHANGED <<config_vars, scene, main_vars, send_ray_vars, hit, j, acc, visited, result>>

\* The distance fade and the return.
Fade ==
    /\ pc = "fade"
    /\ result' = fade(computed_color, hit)
    /\ pc' = "returned"
    /\ UNCHANGED <<config_vars, scene, main_vars, send_ray_vars, get_color_vars>>

GetColorNext == GetColorEnter \/ LightIter \/ LightEnd \/ Fade

Next == SendRayIter \/ SendRayReturn \/ GetColorNext

Spec == Init /\ [][Next]_vars

\* ------------------------------- get_color_for_hitpoint, on far hits

\* The distances of the hits drawn: near, at the start of the fade, a quarter and
\* a half into it, at its end, and beyond.
FadeDistances ==
    {R(10),
     FADE_DISTANCE_START,
     FAdd(FADE_DISTANCE_START, FDiv(FSub(FADE_DISTANCE_END, FADE_DISTANCE_START), R(4))),
     FDiv(FAdd(FADE_DISTANCE_START, FADE_DISTANCE_END), R(2)),
     FADE_DISTANCE_END,
     FAdd(FADE_DISTANCE_END, FADE_DISTANCE_START)}

\* The hit of AxisRay at the given distance on a surface that faces the camera.
AxisHit(distance, color) ==
    Hit(V3_add(AxisRay.origin, V3_multiply(AxisRay.direction, distance)),
        color, distance, P3(0, 0, -1))

\* A light in front of the hit, in the rational unit direction (1/9, 4/9, -8/9).
FrontLight(hit_) ==
    LightObject(V3_add(hit_.point, P3(1, 4, -8)), COLOR_WHITE, COLOR_WHITE)

\* A light on the view axis behind every hit drawn.
BackLight == LightObject(P3(0, 0, 4000000), COLOR_WHITE, Color(R(255), R(0), R(0)))

\* A call get_color_for_hitpoint(hit, &scene) at its first statement.
ShadeInit ==
    /\ color_mode \in ColorMode
    /\ img_width_px = 0
    /\ img_height_px = 0
    /\ ray = AxisRay
    /\ \E distance \in FadeDistances, color \in {COLOR_GREEN, COLOR_BROWN} :
           hit = AxisHit(distance, color)
    /\ scene \in SeqsUpTo({FrontLight(hit), BackLight, NearSphere}, MaxObjects)
    /\ pc = "get_color"
    /\ i = Len(scene) + 1
    /\ st = [closest_hit_distance |-> hit.distance, closest_hit |-> hit]
    /\ tested = [k \in 1..Len(scene) |-> 1]
    /\ MainIdle
    /\ GetColorIdle

ShadeSpec == ShadeInit /\ [][GetColorNext]_vars

\* ------------------------------------------------------ main, step by step

\* The largest image the model draws.
MaxWidth == 2

MaxHeight == 2

\* Objects in front of the camera: a ball on the view axis, a ball on the line
\* through the corner (-2, -2, 0) of the view port, and a triangle around the
\* line through (-2, 0, 0).  All are nearer than FADE_DISTANCE_START.
AxisBall == SphereObject(P3(0, 0, 10), R(1), COLOR_GREEN)

CornerBall == SphereObject(P3(-4, -4, 10), R(1), COLOR_GREEN)

SideTriangle == TriangleObject(P3(-5, -1, 10), P3(-3, -1, 10), P3(-4, 1, 10), COLOR_BROWN)

RenderObjects == {AxisBall, CornerBall, SideTriangle}

RenderScenes == SeqsUpTo(RenderObjects, MaxObjects)

\* The settings that follow from IMG_WIDTH_PX and IMG_HEIGHT_PX, for a width
\* and a height.
VIEW_PORT_HEIGHT(width, height) == FMul(FDiv(R(height), R(width)), VIEW_PORT_WIDTH)

VIEW_PORT_TOP_LEFT(width, height) ==
    [x |-> FNeg(FDiv(VIEW_PORT_WIDTH, R(2))),
     y |-> FNeg(FDiv(VIEW_PORT_HEIGHT(width, height), R(2))),
     z |-> R(0)]

PIX_SIZE_X(width) == FDiv(VIEW_PORT_WIDTH, R(width))

PIX_SIZE_Y(width, height) == FDiv(VIEW_PORT_HEIGHT(width, height), R(height))

\* The check written as the negation of its failure, which a NaN passes.
PIX_X_Y_RATIO_IS_SANE_not_outside(width, height) ==
    ~(FLe(Frac(1, 1000), FSub(PIX_SIZE_X(width), PIX_SIZE_Y(width, height)))
        \/ FLe(FSub(PIX_SIZE_X(width), PIX_SIZE_Y(width, height)), Frac(-1, 1000)))

PIX_X_Y_RATIO_IS_SANE(width, height) ==
    /\ FLt(FSub(PIX_SIZE_X(width), PIX_SIZE_Y(width, height)), Frac(1, 1000))
    /\ FGt(FSub(PIX_SIZE_X(width), PIX_SIZE_Y(width, height)), Frac(-1, 1000))

\* The widths and heights for which check_viewport_is_sane panics.  (A const fn:
\* its outcome is fixed with the settings, before the program runs.)
viewport_panics ==
    UNION {IF PIX_X_Y_RATIO_IS_SANE(size[1], size[2]) THEN {} ELSE {size} :
           size \in (0..MaxWidth) \X (0..MaxHeight)}

check_viewport_is_sane(width, height) ==
    IF <<width, height>> \in viewport_panics THEN "viewport scaling is not correct!" ELSE ""

\* The point of the view port that the loop body computes for a pixel.
view_port_point(width, height, x, y) ==
    [x |-> FAdd(FMul(PIX_SIZE_X(width), R(x)), VIEW_PORT_TOP_LEFT(width, height).x),
     y |-> FAdd(FMul(PIX_SIZE_Y(width, height), R(y)), VIEW_PORT_TOP_LEFT(width, height).y),
     z |-> FAdd(CAMERA_POSITION.z, FOCAL_LENGTH)]

\* Whether intersect returns a hit for the ray from start through end.  The ray's
\* direction is (end - start) divided by its length, which is not a rational
\* number for most pixels; the length is a positive factor of the direction, and
\* neither the sign of the sphere's discriminant nor the triangle's parameter
\* sign, intersection point and tests change with it, so they are computed on
\* the direction before it is normalized.
intersects(obj, start, end) ==
    CASE obj.kind = "Sphere" ->
             ~FLt(Sphere_discriminant(obj, Ray(start, V3_subtract(end, start))), R(0))
      [] obj.kind = "Triangle" ->
             Triangle_intersection(obj, Ray(start, V3_subtract(end, start))).some
      [] obj.kind = "Light" -> FALSE

\* The pixels of an image.
PixelsOf(width, height) == (0..(width - 1)) \X (0..(height - 1))

\* The image sizes, pixels and objects <<width, height, x, y, obj>> for which the
\* pixel's ray hits the object (computed once, for all the renders of the model).
pixel_hits ==
    UNION {IF intersects(h[5], CAMERA_POSITION, view_port_point(h[1], h[2], h[3], h[4]))
           THEN {h} ELSE {} :
           h \in {g \in (1..MaxWidth) \X (1..MaxHeight) \X (0..(MaxWidth - 1))
                          \X (0..(MaxHeight - 1)) \X RenderObjects :
                      g[3] < g[1] /\ g[4] < g[2]}}

\* send_ray for the pixel's ray in mode StaticColor: every hit is shaded
\* COLOR_RED, which the fade leaves as it is for the objects drawn.
pixel_color(scene_, width, height, x, y) ==
    IF \E k \in 1..Len(scene_) : <<width, height, x, y, scene_[k]>> \in pixel_hits
    THEN COLOR_RED
    ELSE send_ray_background

\* Rgba([color.r as u8, color.g as u8, color.b as u8, 0])
img_color(color) == <<AsU8(color.r), AsU8(color.g), AsU8(color.b)>>

\* DynamicImage::new_rgb8(IMG_WIDTH_PX, IMG_HEIGHT_PX)
new_rgb8(width, height) == [p \in PixelsOf(width, height) |-> <<0, 0, 0>>]

\* put_pixel that writes every pixel of a column to the column's first row.
put_pixel_first_row(img_, x, y, color) ==
    IF <<x, 0>> \in DOMAIN img_ THEN [img_ EXCEPT ![<<x, 0>>] = color] ELSE img_

\* img.put_pixel(x, y, color)
put_pixel(img_, x, y, color) ==
    IF <<x, y>> \in DOMAIN img_ THEN [img_ EXCEPT ![<<x, y>>] = color] ELSE img_

\* The count of the calls of put_pixel, one more for <<x, y>>.
count_put(puts_, x, y) ==
    IF <<x, y>> \in DOMAIN puts_
    THEN [puts_ EXCEPT ![<<x, y>>] = @ + 1]
    ELSE [p \in DOMAIN puts_ \cup {<<x, y>>} |-> IF p = <<x, y>> THEN 1 ELSE puts_[p]]

\* The program before its build, with the settings and the scene of its source.
RenderInit ==
    /\ color_mode = "StaticColor"
    /\ img_width_px \in 0..MaxWidth
    /\ img_height_px \in 0..MaxHeight
    /\ scene \in RenderScenes
    /\ pc = "build"
    /\ ray = AxisRay
    /\ i = 1
    /\ st = send_ray_start
    /\ tested = Zeros(Len(scene))
    /\ hit = None
    /\ MainIdle
    /\ GetColorIdle

\* `const _: () = check_viewport_is_sane();`, evaluated when the program is built.
CheckViewport ==
    /\ pc = "build"
    /\ diagnostic' = check_viewport_is_sane(img_width_px, img_height_px)
    /\ pc' = IF diagnostic' # "" THEN "build_failed" ELSE "main"
    /\ UNCHANGED <<config_vars, scene, view_port_pixel_x, view_port_pixel_y, img, puts,
                   rays_cast, workers, send_ray_vars, get_color_vars, result>>

\* main up to its loop: the scene, and the new image.
MainStart ==
    /\ pc = "main"
    /\ img' = new_rgb8(img_width_px, img_height_px)
    /\ view_port_pixel_x' = 0
    /\ pc' = "outer"
    /\ UNCHANGED <<config_vars, scene, diagnostic, view_port_pixel_y, puts, rays_cast,
                   workers, send_ray_vars, get_color_vars, result>>

\* `for view_port_pixel_x in 0..IMG_WIDTH_PX`: the next column.
OuterIter ==
    /\ pc = "outer"
    /\ view_port_pixel_x < img_width_px
    /\ view_port_pixel_y' = 0
    /\ pc' = "inner"
    /\ UNCHANGED <<config_vars, scene, diagnostic, view_port_pixel_x, img, puts, rays_cast,
                   workers, send_ray_vars, get_color_vars, result>>

\* The end of the outer loop.
OuterExit ==
    /\ pc = "outer"
    /\ view_port_pixel_x >= img_width_px
    /\ pc' = "save"
    /\ UNCHANGED <<config_vars, scene, main_vars, send_ray_vars, get_color_vars, result>>

\* put_pixel with its coordinates exchanged.
InnerIter_transposed ==
    /\ pc = "inner"
    /\ view_port_pixel_y < img_height_px
    /\ rays_cast' = rays_cast + 1
    /\ img' = put_pixel(img, view_port_pixel_y, view_port_pixel_x,
                        img_color(pixel_color(scene, img_width_px, img_height_px,
                                              view_port_pixel_x, view_port_pixel_y)))
    /\ puts' = count_put(puts, view_port_pixel_y, view_port_pixel_x)
    /\ view_port_pixel_y' = view_port_pixel_y + 1
    /\ UNCHANGED <<config_vars, scene, pc, diagnostic, view_port_pixel_x, workers,
                   send_ray_vars, get_color_vars, result>>

\* `for view_port_pixel_y in 0..IMG_HEIGHT_PX`: the body, for one pixel.
InnerIter ==
    /\ pc = "inner"
    /\ view_port_pixel_y < img_height_px
    /\ rays_cast' = rays_cast + 1
    /\ img' = put_pixel(img, view_port_pixel_x, view_port_pixel_y,
                        img_color(pixel_color(scene, img_width_px, img_height_px,
                                              view_port_pixel_x, view_port_pixel_y)))
    /\ puts' = count_put(puts, view_port_pixel_x, view_port_pixel_y)
    /\ view_port_pixel_y' = view_port_pixel_y + 1
    /\ UNCHANGED <<config_vars, scene, pc, diagnostic, view_port_pixel_x, workers,
                   send_ray_vars, get_color_vars, result>>

\* The end of the inner loop: on to the next column.
InnerExit ==
    /\ pc = "inner"
    /\ view_port_pixel_y >= img_height_px
    /\ view_port_pixel_x' = view_port_pixel_x + 1
    /\ pc' = "outer"
    /\ UNCHANGED <<config_vars, scene, diagnostic, view_port_pixel_y, img, puts, rays_cast,
                   workers, send_ray_vars, get_color_vars, result>>

\* img.save("image.bmp").unwrap(): the file is written, or the unwrap panics.
Save ==
    /\ pc = "save"
    /\ pc' \in {"done", "save_failed"}
    /\ UNCHANGED <<config_vars, scene, main_vars, send_ray_vars, get_color_vars, result>>

RenderNext ==
    CheckViewport \/ MainStart \/ OuterIter \/ OuterExit \/ InnerIter \/ InnerExit \/ Save

RenderSpec == RenderInit /\ [][RenderNext]_vars

\* The program runs on while it can.
FairRenderSpec == RenderSpec /\ WF_vars(RenderNext)

\* ------------------------------------ main's loop, folded and in any order

\* The body of the inner loop, on the image.
main_loop_body(img_, scene_, width, height, x, y) ==
    put_pixel(img_, x, y, img_color(pixel_color(scene_, width, height, x, y)))

RECURSIVE inner_loop(_, _, _, _, _, _)
inner_loop(img_, scene_, width, height, x, y) ==
    IF y >= height THEN img_
    ELSE inner_loop(main_loop_body(img_, scene_, width, height, x, y),
                    scene_, width, height, x, y + 1)

RECURSIVE outer_loop(_, _, _, _, _)
outer_loop(img_, scene_, width, height, x) ==
    IF x >= width THEN img_
    ELSE outer_loop(inner_loop(img_, scene_, width, height, x, 0),
                    scene_, width, height, x + 1)

\* The image that main's loops leave.
main_loop(scene_, width, height) ==
    outer_loop(new_rgb8(width, height), scene_, width, height, 0)

\* The most workers that share a render.
MaxWorkers == 2

Workers == 1..MaxWorkers

IdleWorker == [busy |-> FALSE, x |-> 0, y |-> 0, color |-> <<0, 0, 0>>]

\* The pixels that a worker holds or has put.
Claimed ==
    DOMAIN puts \cup {<<workers[w].x, workers[w].y>> : w \in {v \in Workers : workers[v].busy}}

\* The loop of main handed to workers: the program after its build and the
\* creation of the image, with no pixel rendered yet.
ParallelInit ==
    /\ color_mode = "StaticColor"
    /\ img_width_px \in 1..MaxWidth
    /\ img_height_px \in 1..MaxHeight
    /\ scene \in RenderScenes
    /\ pc = "parallel"
    /\ diagnostic = ""
    /\ view_port_pixel_x = 0
    /\ view_port_pixel_y = 0
    /\ img = new_rgb8(img_width_px, img_height_px)
    /\ puts = [p \in {} |-> 0]
    /\ rays_cast = 0
    /\ workers = [w \in Workers |-> IdleWorker]
    /\ ray = AxisRay
    /\ i = 1
    /\ st = send_ray_start
    /\ tested = Zeros(Len(scene))
    /\ hit = None
    /\ GetColorIdle

\* A worker takes any pixel that no worker has taken and runs the loop body on
\* it up to the color it will put.
WorkerTake(w) ==
    /\ pc = "parallel"
    /\ ~workers[w].busy
    /\ \E p \in PixelsOf(img_width_px, img_height_px) \ Claimed :
           workers' = [workers EXCEPT ![w] =
                          [busy |-> TRUE, x |-> p[1], y |-> p[2],
                           color |-> img_color(pixel_color(scene, img_width_px, img_height_px,
                                                           p[1], p[2]))]]
    /\ rays_cast' = rays_cast + 1
    /\ UNCHANGED <<config_vars, scene, pc, diagnostic, view_port_pixel_x, view_port_pixel_y,
                   img, puts, send_ray_vars, get_color_vars, result>>

\* The worker's put_pixel.
WorkerPut(w) ==
    /\ pc = "parallel"
    /\ workers[w].busy
    /\ img' = put_pixel(img, workers[w].x, workers[w].y, workers[w].color)
    /\ puts' = count_put(puts, workers[w].x, workers[w].y)
    /\ workers' = [workers EXCEPT ![w] = IdleWorker]
    /\ UNCHANGED <<config_vars, scene, pc, diagnostic, view_port_pixel_x, view_port_pixel_y,
                   rays_cast, send_ray_vars, get_color_vars, result>>

\* Every pixel is put and every worker is done: on to the save.
WorkersJoin ==
    /\ pc = "parallel"
    /\ PixelsOf(img_width_px, img_height_px) \subseteq DOMAIN puts
    /\ \A w \in Workers : ~workers[w].busy
    /\ pc' = "save"
    /\ UNCHANGED <<config_vars, scene, main_vars, send_ray_vars, get_color_vars, result>>

ParallelNext ==
    \/ \E w \in Workers : WorkerTake(w)
    \/ \E w \in Workers : WorkerPut(w)
    \/ WorkersJoin
    \/ Save

ParallelSpec == ParallelInit /\ [][ParallelNext]_vars

\* ================================================================ claims

Indices == 1..Len(scene)

HitOf(k) == intersect(scene[k], ray)

Returned == pc = "returned"

\* send_ray has left its loop.
LoopDone == pc \in {"get_color", "lights", "fade", "returned"}

\* The scenes that hold the same objects in another order.
Reorderings(s) == {[k \in 1..Len(s) |-> s[f[k]]] : f \in Permutations(1..Len(s))}

\* Whether k is the first object of the scene whose hit is nearest.
FirstNearest(k) ==
    /\ HitOf(k).some
    /\ \A m \in Indices : HitOf(m).some => FLe(HitOf(k).distance, HitOf(m).distance)
    /\ \A m \in 1..(k - 1) : HitOf(m).some => FLt(HitOf(k).distance, HitOf(m).distance)

\* Whether no hit of the scene is nearer than that of object k.
Nearest(k) ==
    /\ HitOf(k).some
    /\ \A m \in Indices : HitOf(m).some => FLe(HitOf(k).distance, HitOf(m).distance)

\* No two objects of the scene produce different hits at the nearest distance.
TieFree ==
    \A k, m \in Indices :
        (k < m /\ HitOf(k).some /\ HitOf(m).some
               /\ HitOf(k).distance = HitOf(m).distance /\ Nearest(k))
            => HitOf(m) = HitOf(k)

\* C1: when some object yields a hit, send_ray shades a hit that no other hit of
\* the scene is nearer than, and it has tested every object of the scene once.
C1_ClosestHitWins ==
    LoopDone =>
        /\ \A k \in Indices : tested[k] = 1
        /\ (\E k \in Indices : HitOf(k).some) =>
               /\ hit.some
               /\ \E k \in Indices : hit = HitOf(k)
               /\ \A k \in Indices : HitOf(k).some => FLe(hit.distance, HitOf(k).distance)
               /\ Returned => result = get_color_for_hitpoint(hit, scene, color_mode)

\* C1's case: the nearest hit belongs to an object that comes after a farther one.
C1_Witness ==
    /\ Returned
    /\ \E k, m \in Indices :
           /\ k < m
           /\ HitOf(k).some
           /\ HitOf(m).some
           /\ FLt(HitOf(m).distance, HitOf(k).distance)
           /\ hit = HitOf(m)

\* C2 as claimed: send_ray returns the same color for every order of the scene's
\* objects, ties in distance included.
C2_OrderIrrelevant ==
    Returned => \A q \in Reorderings(scene) : send_ray(q, ray, color_mode) = result

IsLight(obj) == obj.kind = "Light"

\* The reorderings of the scene whose color the code computes with the same
\* sequence of floating-point additions: in mode Light those that keep the
\* lights in their relative order, in the other modes all of them.
SameSummation(q) ==
    color_mode = "Light" => SelectSeq(q, IsLight) = SelectSeq(scene, IsLight)

\* C2 as amended: the hit shaded is that of the first object of the scene among
\* those whose hit is nearest.  When no two different hits tie at the nearest
\* distance, every order of the scene's objects gives the same closest hit, and
\* the same color in modes StaticColor and Normals, and in mode Light for the
\* orders that keep the lights in their relative order.
C2_OrderIrrelevantWithoutTies ==
    Returned =>
        /\ \A k \in Indices : FirstNearest(k) => hit = HitOf(k)
        /\ TieFree =>
               \A q \in Reorderings(scene) :
                   /\ send_ray_loop(q, ray, send_ray_start, 1) = st
                   /\ SameSummation(q) => send_ray(q, ray, color_mode) = result

\* C2's case: two objects of a scene without ties are hit at different distances.
C2_Witness ==
    /\ Returned
    /\ TieFree
    /\ \E k, m \in Indices :
           /\ HitOf(k).some
           /\ HitOf(m).some
           /\ FLt(HitOf(k).distance, HitOf(m).distance)
           /\ hit = HitOf(k)
           /\ result # send_ray_background

\* The line of the ray meets the object, and only behind the ray's origin.  For a
\* sphere: the quadratic has real roots, both negative (their sum -b/a is
\* negative and their product c/a positive).  For a triangle: the plane is met at
\* a negative parameter, in a point that passes the triangle's tests.
OnlyBehind(obj, ray_) ==
    CASE obj.kind = "Sphere" ->
             /\ ~FLt(Sphere_discriminant(obj, ray_), R(0))
             /\ FGt(Sphere_b(V3_subtract(ray_.origin, obj.center), ray_), R(0))
             /\ FGt(Sphere_c(obj, V3_subtract(ray_.origin, obj.center)), R(0))
      [] obj.kind = "Triangle" ->
             /\ FLt(Triangle_distance_along_ray(obj, ray_), R(0))
             /\ Triangle_tests(obj, R(0),
                    V3_add(ray_.origin,
                           V3_multiply(ray_.direction,
                                       Triangle_distance_along_ray(obj, ray_)))).some
      [] OTHER -> FALSE

\* C3 as claimed: intersect returns no hit for a sphere or a triangle that the
\* ray's line meets only behind the ray's origin.
C3_NoHitBehindOrigin ==
    \A k \in Indices : (tested[k] = 1 /\ OnlyBehind(scene[k], ray)) => ~HitOf(k).some

\* C4: when no object yields a hit, send_ray returns black in every color mode,
\* whatever lights the scene holds; a Light never yields a hit.
C4_BackgroundBlack ==
    /\ \A k \in Indices : scene[k].kind = "Light" => ~HitOf(k).some
    /\ (Returned /\ \A k \in Indices : scene[k].kind \in {"Sphere", "Triangle"} => ~HitOf(k).some)
           => result = COLOR_BLACK

\* C4's case: a scene of lights only, in mode Light, has been rendered.
C4_Witness ==
    /\ Returned
    /\ color_mode = "Light"
    /\ Len(scene) >= 2
    /\ \A k \in Indices : scene[k].kind = "Light"
    /\ result = COLOR_BLACK

\* The ray has a unit direction and points at the sphere's center from outside.
AimedAtCenter(obj, ray_) ==
    LET to_center == V3_subtract(obj.center, ray_.origin)
        d == V3_dot(to_center, ray_.direction)
    IN  /\ obj.kind = "Sphere"
        /\ V3_dot(ray_.direction, ray_.direction) = R(1)
        /\ V3_multiply(ray_.direction, d) = to_center
        /\ FGt(d, obj.radius)

CenterDistance(obj, ray_) == V3_dot(V3_subtract(obj.center, ray_.origin), ray_.direction)

\* C9: a unit ray aimed at the center of a sphere from a distance d > r hits it at
\* distance d - r, in the point of the sphere that faces the origin, with a normal
\* parallel to the ray (it is the direction reversed).
C9_SphereNearRoot ==
    \A k \in Indices :
        (tested[k] = 1 /\ scene[k].kind = "Sphere" /\ AimedAtCenter(scene[k], ray)) =>
            LET d == CenterDistance(scene[k], ray)
                r == scene[k].radius
                h == HitOf(k)
            IN  /\ h.some
                /\ h.distance = FSub(d, r)
                /\ h.point = V3_add(ray.origin, V3_multiply(ray.direction, FSub(d, r)))
                /\ V3_squared_length(V3_subtract(h.point, scene[k].center)) = FMul(r, r)
                /\ V3_cross(h.surface_normal, ray.direction) = P3(0, 0, 0)
                /\ h.surface_normal = V3_multiply(ray.direction, R(-1))

\* C9's case: the off-axis ray has been tested against the sphere it is aimed at.
C9_Witness ==
    /\ Returned
    /\ ray = SlantRay
    /\ \E k \in Indices : tested[k] = 1 /\ AimedAtCenter(scene[k], ray)

\* What one light adds to resulting_light, taken from black.
LightPart(k) == light_loop_body(light_loop_start, scene[k], hit).resulting_light

RECURSIVE SumOfLights(_)
SumOfLights(k) ==
    IF k = 0 THEN COLOR_BLACK
    ELSE IF scene[k].kind = "Light" THEN Color_add(SumOfLights(k - 1), LightPart(k))
    ELSE SumOfLights(k - 1)

AmbientPart ==
    Color(FMul(hit.material_color.r, AMBIENT_REFLECTION_CONSTANT),
          FMul(hit.material_color.g, AMBIENT_REFLECTION_CONSTANT),
          FMul(hit.material_color.b, AMBIENT_REFLECTION_CONSTANT))

\* C10: in mode Light the computed color is the sum of the parts of the scene's
\* lights, each taken once, spheres and triangles adding nothing, plus the
\* ambient part once; with no light it is the ambient part.
C10_LightsAddUp ==
    (color_mode = "Light" /\ pc \in {"fade", "returned"} /\ hit.some) =>
        /\ \A k \in Indices : visited[k] = 1
        /\ computed_color = Color_add(SumOfLights(Len(scene)), AmbientPart)
        /\ (\A k \in Indices : scene[k].kind # "Light") => computed_color = AmbientPart

\* C10's case: a hit lit by two different lights, both of which add to it.
C10_Witness ==
    /\ Returned
    /\ color_mode = "Light"
    /\ hit.some
    /\ \E k, m \in Indices :
           /\ scene[k] = LeftLight
           /\ scene[m] = RightLight
           /\ LightPart(k) # COLOR_BLACK
           /\ LightPart(m) # COLOR_BLACK

\* The share of the way from FADE_DISTANCE_START to FADE_DISTANCE_END.
FadeRatio(distance) ==
    FDiv(FSub(distance, FADE_DISTANCE_START), FSub(FADE_DISTANCE_END, FADE_DISTANCE_START))

Faded(color, ratio) ==
    Color(FMul(color.r, FSub(R(1), ratio)),
          FMul(color.g, FSub(R(1), ratio)),
          FMul(color.b, FSub(R(1), ratio)))

\* C8: get_color_for_hitpoint returns the computed color itself for a hit at most
\* FADE_DISTANCE_START away, black for a hit FADE_DISTANCE_END away or farther, and
\* in between the computed color blended toward black by the ratio
\* (distance - START) / (END - START), which lies in [0, 1].
C8_DistanceFade ==
    Returned =>
        /\ FLe(hit.distance, FADE_DISTANCE_START) => result = computed_color
        /\ FLe(FADE_DISTANCE_END, hit.distance) => result = COLOR_BLACK
        /\ (FLt(FADE_DISTANCE_START, hit.distance) /\ FLt(hit.distance, FADE_DISTANCE_END)) =>
               /\ FLe(R(0), FadeRatio(hit.distance))
               /\ FLe(FadeRatio(hit.distance), R(1))
               /\ result = Faded(computed_color, FadeRatio(hit.distance))

\* C8's case: a lit hit a quarter into the fade has been shaded and faded.
C8_Witness ==
    /\ Returned
    /\ color_mode = "Light"
    /\ FadeRatio(hit.distance) = Frac(1, 4)
    /\ \E k \in Indices : scene[k] = FrontLight(hit)
    /\ result # computed_color
    /\ result # COLOR_BLACK

\* The pixels of the configured image.
Pixels == PixelsOf(img_width_px, img_height_px)

\* put_pixel was called once for each pixel of the image and for nothing else.
EachPixelOnce ==
    /\ DOMAIN puts = Pixels
    /\ \A p \in Pixels : puts[p] = 1

LoopEnded == pc \in {"save", "done", "save_failed"}

\* C5: the render loop of main terminates, and when it has ended every pixel
\* (x, y) with 0 <= x < IMG_WIDTH_PX and 0 <= y < IMG_HEIGHT_PX has been written
\* exactly once and no pixel outside that range has been written.
C5_RenderCompletes ==
    /\ (pc = "main") ~> (pc = "save")
    /\ [](LoopEnded => EachPixelOnce)

\* C5's case: the loop over an image of two columns and two rows has ended, with
\* pixels of both colors.
C5_Witness ==
    /\ pc = "done"
    /\ img_width_px = 2
    /\ img_height_px = 2
    /\ EachPixelOnce
    /\ \E p, q \in Pixels : img[p] = <<255, 0, 0>> /\ img[q] = <<0, 0, 0>>

\* The square-pixel check as the claim words it.  The absolute value of a NaN is
\* a NaN, and no comparison with a NaN holds.
SquarePixels ==
    FLt(FAbs(FSub(PIX_SIZE_X(img_width_px), PIX_SIZE_Y(img_width_px, img_height_px))),
        Frac(1, 1000))

NoRenderingWork ==
    /\ rays_cast = 0
    /\ DOMAIN puts = {}
    /\ img = EmptyImage

\* C7: the square-pixel check comes before any rendering work; when it fails the
\* program stops with the diagnostic "viewport scaling is not correct!", no ray
\* is cast and no pixel is written, in that step and ever after.
C7_CheckBeforeRendering ==
    /\ pc = "build" => NoRenderingWork
    /\ pc = "build_failed" <=> (pc # "build" /\ ~SquarePixels)
    /\ pc = "build_failed" => diagnostic = "viewport scaling is not correct!"
    /\ ~SquarePixels => (pc \in {"build", "build_failed"} /\ NoRenderingWork)

\* C7's case: the build of a configuration with no columns has failed.
C7_Witness ==
    /\ pc = "build_failed"
    /\ img_width_px = 0
    /\ img_height_px > 0
    /\ ~SquarePixels
    /\ diagnostic = "viewport scaling is not correct!"

\* C6: every pixel's color depends on its own coordinates, the scene and the
\* settings only: workers that take the pixels in any order and interleaving
\* leave the image that the sequential loops leave, and no step changes the scene.
C6_PixelsIndependent ==
    /\ [](pc = "save" =>
            /\ img = main_loop(scene, img_width_px, img_height_px)
            /\ \A p \in Pixels :
                   img[p] = img_color(pixel_color(scene, img_width_px, img_height_px,
                                                  p[1], p[2])))
    /\ [][scene' = scene]_vars

\* C6's case: two workers hold pixels of different colors while the last pixel
\* of the image is put and its first is not.
C6_Witness ==
    /\ pc = "parallel"
    /\ Len(scene) > 0
    /\ <<img_width_px - 1, img_height_px - 1>> \in DOMAIN puts
    /\ <<0, 0>> \notin DOMAIN puts
    /\ \A w \in Workers : workers[w].busy
    /\ \E v, w \in Workers : workers[v].color # workers[w].color

====
